---- MODULE Spec2Model ----
(***************************************************************************)
(* Model of effect-mdx (MdxService): front-matter fence validation, the    *)
(* document splitter parseMdxFile, readMdxAndFrontmatter and the metadata  *)
(* reconstruction updateMdxContent, together with the gray-matter codec    *)
(* they call (delimiter scan, module-level cache, stringify).              *)
(*                                                                         *)
(* Texts are sequences of one-character strings, so that every index,      *)
(* slice and search of the source is computed as the source computes it.   *)
(***************************************************************************)
EXTENDS Integers, Sequences, FiniteSets, TLC

\* ------------------------------------------------------------------ bounds

\* Number of lines of the input document.
MaxLines == 4

\* Number of entries of a configured stage list.
MaxStages == 2

\* Number of entries of the parameters member of a frontmatter.
MaxParams == 2

\* Number of calls running concurrently on one service.
MaxCalls == 2

\* Number of nested calls the JavaScript engine allows before it throws
\* RangeError (Maximum call stack size exceeded); deeper than any input that
\* holds no reference to itself.
MaxCallStack == 6

\* ------------------------------------------------------------- characters

DASH == "-"
NL == "\n"
DQ == "\""
HASH == "#"
COLON == ":"
SP == " "
LBRACK == "["

\* The delimiter of gray-matter and of validateFrontmatterFence.
Fence == <<DASH, DASH, DASH>>
\* "\n---": the closing delimiter both search for.
CloseFence == <<NL>> \o Fence

KeyChars == {"a", "b"}
Whitespace == {SP, NL}

\* --------------------------------------------------- JavaScript string ops

MinOf(S) == CHOOSE m \in S : \A k \in S : m <= k
MaxOf(S) == CHOOSE m \in S : \A k \in S : m >= k

\* String.prototype.startsWith
StartsWith(s, p) == Len(s) >= Len(p) /\ SubSeq(s, 1, Len(p)) = p

\* String.prototype.indexOf(p, from): 0-based, -1 when absent
IndexOf(s, p, from) ==
  LET hits == {i \in from..(Len(s) - Len(p)) : SubSeq(s, i + 1, i + Len(p)) = p}
  IN IF hits = {} THEN -1 ELSE MinOf(hits)

\* String.prototype.slice(i, j): 0-based, j exclusive, negative counts from the end
Slice(s, i, j) ==
  LET n == Len(s)
      lo == IF i < 0 THEN (IF n + i < 0 THEN 0 ELSE n + i) ELSE (IF i > n THEN n ELSE i)
      hi == IF j < 0 THEN (IF n + j < 0 THEN 0 ELSE n + j) ELSE (IF j > n THEN n ELSE j)
  IN IF lo >= hi THEN <<>> ELSE SubSeq(s, lo + 1, hi)

SliceFrom(s, i) == Slice(s, i, Len(s))

\* String.prototype.charAt(i): 0-based, "" past the end
CharAt(s, i) == IF i >= 0 /\ i < Len(s) THEN s[i + 1] ELSE ""

\* String.prototype.trim / trimStart
Trim(s) ==
  LET keep == {i \in 1..Len(s) : s[i] \notin Whitespace}
  IN IF keep = {} THEN <<>> ELSE SubSeq(s, MinOf(keep), MaxOf(keep))

TrimStart(s) ==
  LET keep == {i \in 1..Len(s) : s[i] \notin Whitespace}
  IN IF keep = {} THEN <<>> ELSE SubSeq(s, MinOf(keep), Len(s))

\* fm.match(/"/g)?.length ?? 0
CountDq(s) == Cardinality({i \in 1..Len(s) : s[i] = DQ})

RECURSIVE SplitLines(_)
SplitLines(s) ==
  LET i == IndexOf(s, <<NL>>, 0)
  IN IF i = -1 THEN <<s>> ELSE <<Slice(s, 0, i)>> \o SplitLines(SliceFrom(s, i + 1))

RECURSIVE JoinLines(_)
JoinLines(ls) ==
  IF ls = <<>> THEN <<>>
  ELSE IF Len(ls) = 1 THEN ls[1]
  ELSE ls[1] \o <<NL>> \o JoinLines(Tail(ls))

\* --------------------------------------------------------------- errors

\* InvalidMdxFormatError thrown by the fence heuristic
UnbalancedQuotes == [kind |-> "InvalidMdxFormatError",
                     reason |-> "Unbalanced quotes detected in frontmatter"]
\* exceptions of the codec
YAMLException == [kind |-> "YAMLException", reason |-> "YAMLException"]
EngineError == [kind |-> "Error", reason |-> "engine is not registered"]

\* ------------------------------------------------ validateFrontmatterFence

\* The value of `end` at config.ts:171 (only read when the text starts with ---)
FenceEnd(content) == IndexOf(content, CloseFence, 3)

\* TRUE iff validateFrontmatterFence(content) throws
validateFrontmatterFenceMutNoStart(content) ==
  /\ FenceEnd(content) > 0
  /\ LET dq == CountDq(Slice(content, 3, FenceEnd(content)))
     IN dq > 0 /\ dq % 2 = 1

validateFrontmatterFenceMutNoEnd(content) ==
  /\ StartsWith(content, Fence)
  /\ LET end == FenceEnd(content)
         fm == IF end > 0 THEN Slice(content, 3, end) ELSE SliceFrom(content, 3)
         dq == CountDq(fm)
     IN dq > 0 /\ dq % 2 = 1

validateFrontmatterFence(content) ==
  /\ StartsWith(content, Fence)
  /\ FenceEnd(content) > 0
  /\ LET dq == CountDq(Slice(content, 3, FenceEnd(content)))
     IN dq > 0 /\ dq % 2 = 1

\* ------------------------------------------------------------ YAML engine
\* The engine gray-matter delegates to (js-yaml safeLoad / safeDump), on block
\* mappings of one-character keys: a line is blank, a comment (#...), or an entry
\* "k: v" whose value is a plain scalar or a closed double-quoted scalar.
\* Metadata is the ordered list of its entries [k, v].

NoData == <<>>

IsCommentOrBlank(line) ==
  LET t == TrimStart(line) IN t = <<>> \/ t[1] = HASH

IsContent(line) == ~IsCommentOrBlank(line)

\* A value js-yaml reads: not an unclosed flow sequence, not an unterminated
\* double-quoted scalar.
ValueOk(v) ==
  /\ v[1] # LBRACK
  /\ v[1] = DQ => (Len(v) >= 2 /\ v[Len(v)] = DQ /\ CountDq(v) = 2)

EntryOk(line) ==
  /\ Len(line) >= 4
  /\ line[1] \in KeyChars
  /\ line[2] = COLON
  /\ line[3] = SP
  /\ ValueOk(SubSeq(line, 4, Len(line)))

ScalarOf(v) == IF v[1] = DQ THEN SubSeq(v, 2, Len(v) - 1) ELSE v

EntryOf(line) == [k |-> line[1], v |-> ScalarOf(SubSeq(line, 4, Len(line)))]

Keys(data) == {data[i].k : i \in 1..Len(data)}

\* TRUE iff yaml.safeLoad(m) throws: a malformed entry or a duplicated key
yamlThrows(m) ==
  LET ls == SelectSeq(SplitLines(m), IsContent)
  IN \/ \E i \in 1..Len(ls) : ~EntryOk(ls[i])
     \/ \E i, j \in 1..Len(ls) : i < j /\ ls[i][1] = ls[j][1]

\* yaml.safeLoad(m) when it does not throw
yamlLoad(m) ==
  LET ls == SelectSeq(SplitLines(m), IsContent)
  IN [i \in 1..Len(ls) |-> EntryOf(ls[i])]

RECURSIVE DumpEntries(_)
DumpEntries(data) ==
  IF data = <<>> THEN <<>>
  ELSE <<data[1].k, COLON, SP>> \o data[1].v \o <<NL>> \o DumpEntries(Tail(data))

\* yaml.safeDump(data): "{}\n" for the empty mapping, else one "k: v\n" per key,
\* the scalar in plain style
yamlDump(data) ==
  IF data = <<>> THEN <<"{", "}", NL>> ELSE DumpEntries(data)

\* Object.assign({}, a, b): a's keys in order (b's value where b has the key),
\* then b's other keys in order
ValueIn(data, key) == (CHOOSE i \in 1..Len(data) : data[i].k = key)

ObjectAssign(a, b) ==
  LET kept == [i \in 1..Len(a) |->
                 IF a[i].k \in Keys(b) THEN b[ValueIn(b, a[i].k)] ELSE a[i]]
      fresh == {i \in 1..Len(b) : b[i].k \notin Keys(a)}
      RECURSIVE Pick(_)
      Pick(i) == IF i > Len(b) THEN <<>>
                 ELSE IF i \in fresh THEN <<b[i]>> \o Pick(i + 1) ELSE Pick(i + 1)
  IN kept \o Pick(1)

\* ------------------------------------------------------------ gray-matter

NoExc == [kind |-> "none", reason |-> ""]

\* matter.language(str): the rest of the delimiter's line (str.search of the
\* first newline; -1 makes slice(0, -1) drop the last character)
LanguageRaw(str) == Slice(str, 0, IndexOf(str, <<NL>>, 0))

\* block === '': the matter holds only whitespace and comment lines
\* (file.matter.replace(/^\s*#[^\n]+/gm, '').trim())
IsEmptyBlock(m) ==
  LET ls == SplitLines(m)
  IN \A i \in 1..Len(ls) :
       LET t == TrimStart(ls[i]) IN t = <<>> \/ (t[1] = HASH /\ Len(t) >= 2)

\* file.content after the closing delimiter, one leading newline stripped
AfterClose(str, closeIndex) ==
  LET rest == SliceFrom(str, closeIndex + Len(CloseFence))
  IN IF CharAt(rest, 0) = NL THEN SliceFrom(rest, 1) ELSE rest

\* parseMatter(file): [thrown, exc, data, content]
parseMatter(input) ==
  IF ~StartsWith(input, Fence) \/ CharAt(input, 3) = DASH
  THEN [thrown |-> FALSE, exc |-> NoExc, data |-> NoData, content |-> input]
  ELSE
    LET str0 == SliceFrom(input, 3)
        len == Len(str0)
        raw == LanguageRaw(str0)
        name == Trim(raw)
        str == IF name # <<>> THEN SliceFrom(str0, Len(raw)) ELSE str0
        found == IndexOf(str, CloseFence, 0)
        closeIndex == IF found = -1 THEN len ELSE found
        m == Slice(str, 0, closeIndex)
        body == IF closeIndex = len THEN <<>> ELSE AfterClose(str, closeIndex)
    IN IF IsEmptyBlock(m)
       THEN [thrown |-> FALSE, exc |-> NoExc, data |-> NoData, content |-> body]
       ELSE IF name # <<>>
       THEN [thrown |-> TRUE, exc |-> EngineError, data |-> NoData, content |-> input]
       ELSE IF yamlThrows(m)
       THEN [thrown |-> TRUE, exc |-> YAMLException, data |-> NoData, content |-> input]
       ELSE [thrown |-> FALSE, exc |-> NoExc, data |-> yamlLoad(m), content |-> body]

\* matter(input) with its module-level cache c (matter.cache, keyed by the input):
\* the file object is stored in the cache before it is parsed, so a parse that
\* throws leaves the unparsed file {data: {}, content: input} behind.
\* [thrown, exc, data, content, cache]
matterCached(c, input, r) ==
  [thrown |-> r.thrown, exc |-> r.exc, data |-> r.data, content |-> r.content,
   cache |-> c @@ (input :> [data |-> r.data, content |-> r.content])]

matter(c, input) ==
  IF input = <<>>
  THEN [thrown |-> FALSE, exc |-> NoExc, data |-> NoData, content |-> input, cache |-> c]
  ELSE IF input \in DOMAIN c
  THEN [thrown |-> FALSE, exc |-> NoExc, data |-> c[input].data,
        content |-> c[input].content, cache |-> c]
  ELSE matterCached(c, input, parseMatter(input))

\* newline(str) of gray-matter's stringify
newline(str) == IF Slice(str, -1, Len(str)) # <<NL>> THEN str \o <<NL>> ELSE str

\* stringify(file, data): the header (omitted when the data dump is "{}") and the
\* content, each ended by a newline
stringify(fileData, fileContent, data) ==
  LET m == Trim(yamlDump(ObjectAssign(fileData, data)))
      buf == IF m # <<"{", "}">>
             THEN newline(Fence) \o newline(m) \o newline(Fence)
             ELSE <<>>
  IN buf \o newline(fileContent)

\* matter.stringify(file, data) for a string file: the string is first read by
\* matter(file). [thrown, exc, value, cache]
stringifyFile(f, data) ==
  IF f.thrown
  THEN [thrown |-> TRUE, exc |-> f.exc, value |-> <<>>, cache |-> f.cache]
  ELSE [thrown |-> FALSE, exc |-> NoExc,
        value |-> stringify(f.data, f.content, data), cache |-> f.cache]

matterStringify(c, file, data) == stringifyFile(matter(c, file), data)

\* ------------------------------------------------------- updateMdxContent

\* config.ts:158 on the file object o that matter(original) returned at :157
stringifyOriginalBody(o, updatedFrontmatter) ==
  IF o.thrown
  THEN [thrown |-> TRUE, exc |-> o.exc, value |-> <<>>, cache |-> o.cache]
  ELSE matterStringify(o.cache, o.content, updatedFrontmatter)

\* [thrown, exc, value, cache]
updateMdxContent(c, originalFullMdxContent, updatedFrontmatter) ==
  stringifyOriginalBody(matter(c, originalFullMdxContent), updatedFrontmatter)

\* ----------------------------------------------------------- parseMdxFile

None == [exit |-> "none"]

\* Effect.try's catch: the typed failure wrapping whatever the try block threw
InvalidMdxFormatError(error) ==
  [exit |-> "Failure", tag |-> "InvalidMdxFormatError",
   reason |-> <<"Failed to parse MDX content: ", error.reason>>, cause |-> error,
   attributes |-> NoData, body |-> <<>>]

ParseSuccess(data, content) ==
  [exit |-> "Success", tag |-> "", reason |-> <<>>, cause |-> NoExc,
   attributes |-> data, body |-> content]

\* a defect: an exception no handler turned into a typed failure
Die(error) ==
  [exit |-> "Die", tag |-> "", reason |-> <<>>, cause |-> error,
   attributes |-> NoData, body |-> <<>>]

\* [result, cache, codecCalls, codecExc]: codecCalls counts the calls of matter()
\* made by the call, codecExc is what matter() threw (NoExc when it did not throw)
parseMdxFileMutCodecFirst(c, content) ==
  LET m == matter(c, content)
  IN IF m.thrown
     THEN [result |-> InvalidMdxFormatError(m.exc), cache |-> m.cache,
           codecCalls |-> 1, codecExc |-> m.exc]
     ELSE IF validateFrontmatterFence(content)
     THEN [result |-> InvalidMdxFormatError(UnbalancedQuotes), cache |-> m.cache,
           codecCalls |-> 1, codecExc |-> NoExc]
     ELSE [result |-> ParseSuccess(m.data, m.content), cache |-> m.cache,
           codecCalls |-> 1, codecExc |-> NoExc]

parseMdxFileMutNoCatch(c, content) ==
  IF validateFrontmatterFence(content)
  THEN [result |-> InvalidMdxFormatError(UnbalancedQuotes), cache |-> c,
        codecCalls |-> 0, codecExc |-> NoExc]
  ELSE LET m == matter(c, content)
       IN IF m.thrown
          THEN [result |-> Die(m.exc), cache |-> m.cache,
                codecCalls |-> 1, codecExc |-> m.exc]
          ELSE [result |-> ParseSuccess(m.data, m.content), cache |-> m.cache,
                codecCalls |-> 1, codecExc |-> NoExc]

\* the try block after matter(content) returned or threw (m), and the catch
tryMatter(m) ==
  IF m.thrown
  THEN [result |-> InvalidMdxFormatError(m.exc), cache |-> m.cache,
        codecCalls |-> 1, codecExc |-> m.exc]
  ELSE [result |-> ParseSuccess(m.data, m.content), cache |-> m.cache,
        codecCalls |-> 1, codecExc |-> NoExc]

parseMdxFile(c, content) ==
  IF validateFrontmatterFence(content)
  THEN [result |-> InvalidMdxFormatError(UnbalancedQuotes), cache |-> c,
        codecCalls |-> 0, codecExc |-> NoExc]
  ELSE tryMatter(matter(c, content))

\* ------------------------------------------------- readMdxAndFrontmatter

\* fs.readFileString failing: the platform's own typed error, passed through
PlatformError ==
  [exit |-> "Failure", tag |-> "PlatformError", reason |-> <<>>, cause |-> NoExc,
   attributes |-> NoData, body |-> <<>>]

\* exists: whether the file system holds fileContent at filePath.
\* matter() runs inside Effect.gen with no handler: what it throws is a defect.
genMatter(m) ==
  IF m.thrown
  THEN [result |-> Die(m.exc), cache |-> m.cache,
        codecCalls |-> 1, codecExc |-> m.exc]
  ELSE [result |-> ParseSuccess(m.data, m.content), cache |-> m.cache,
        codecCalls |-> 1, codecExc |-> NoExc]

readMdxAndFrontmatter(c, exists, fileContent) ==
  IF ~exists
  THEN [result |-> PlatformError, cache |-> c, codecCalls |-> 0, codecExc |-> NoExc]
  ELSE genMatter(matter(c, fileContent))

\* ------------------------------------------------------- JavaScript values
\* A JavaScript value: its typeof-level kind t, a scalar payload s (the text of
\* a string, number or boolean, the name of a function, as a sequence of
\* tokens; the empty string is <<>>), and for arrays and objects the members in
\* order (keys names the own members of an object). proto is <<>> for a value
\* with the prototype of its kind and <<p>> for an object whose prototype was
\* set to p.

JsVal(type, scalar, names, members) ==
  [t |-> type, s |-> scalar, keys |-> names, items |-> members, proto |-> <<>>]

Undefined == JsVal("undefined", <<"undefined">>, <<>>, <<>>)
Null == JsVal("null", <<"null">>, <<>>, <<>>)
Str(text) == JsVal("string", IF text = "" THEN <<>> ELSE <<text>>, <<>>, <<>>)
\* a string given by its characters
Text(chars) == JsVal("string", chars, <<>>, <<>>)
Num(text) == JsVal("number", <<text>>, <<>>, <<>>)
Bool(text) == JsVal("boolean", <<text>>, <<>>, <<>>)
Fn(name) == JsVal("function", <<name>>, <<>>, <<>>)
Arr(members) == JsVal("array", <<>>, <<>>, members)
Obj(names, members) == JsVal("object", <<>>, names, members)

\* typeof v === "object"
TypeofObject(v) == v.t \in {"object", "array", "null"}

\* Array.isArray(v)
IsArray(v) == v.t = "array"

\* "k" in v, for an object v
HasKey(v, k) == \E i \in 1..Len(v.keys) : v.keys[i] = k

\* v.k, undefined when absent or when v has no members
Prop(v, k) ==
  IF v.t = "object" /\ HasKey(v, k)
  THEN v.items[CHOOSE i \in 1..Len(v.keys) : v.keys[i] = k]
  ELSE Undefined

\* v[k] for an array v and the text k of an index
IndexKeys == <<"0", "1", "2">>

\* Object.keys(v) of an object or an array
OwnKeys(v) ==
  IF v.t = "object" THEN v.keys
  ELSE IF v.t = "array" THEN [i \in 1..Len(v.items) |-> IndexKeys[i]]
  ELSE <<>>

\* target[key] = value on an object made by a literal: the key __proto__ goes
\* to the setter of Object.prototype, which sets the prototype when the value
\* is an object or null and does nothing otherwise; no own member is made
setProperty(target, key, value) ==
  IF key = "__proto__"
  THEN IF value.t \in {"object", "array", "function", "null"}
       THEN [target EXCEPT !.proto = <<value>>]
       ELSE target
  ELSE IF HasKey(target, key)
  THEN [target EXCEPT !.items[CHOOSE i \in 1..Len(target.keys) : target.keys[i] = key] = value]
  ELSE [target EXCEPT !.keys = Append(target.keys, key), !.items = Append(target.items, value)]

\* target[names[i]] = members[i], in order
RECURSIVE assignAll(_, _, _)
assignAll(target, names, members) ==
  IF names = <<>> THEN target
  ELSE assignAll(setProperty(target, Head(names), Head(members)), Tail(names),
                 Tail(members))

\* JavaScript truthiness
Truthy(v) ==
  /\ v.t \notin {"undefined", "null"}
  /\ v.t = "boolean" => v.s = <<"true">>
  /\ v.t = "string" => v.s # <<>>
  /\ v.t = "number" => v.s \notin {<<"0">>, <<"NaN">>}

\* ------------------------------------------------------------------ unified
\* The processor of unified: use() records attachers [plugin, parameters] in
\* call order; process() applies them in that order. The processor p is
\* [attachers, exc]: exc is the exception a use() call threw (NoExc if none).

\* unified 10 and unified 11 differ on a preset without plugins and settings
UnifiedMajors == {10, 11}

UsableTypeError == [kind |-> "TypeError", reason |-> "Expected usable value"]
ListTypeError == [kind |-> "TypeError", reason |-> "Expected a list of plugins"]
EmptyPresetError == [kind |-> "Error", reason |-> "Expected usable value but received an empty preset"]
NullPresetError == [kind |-> "TypeError", reason |-> "Cannot read properties of null"]
NotAFunctionError == [kind |-> "TypeError", reason |-> "attacher is not a function"]

\* unified(). targets runs parallel to attachers: targets[i] is <<o>> when the
\* first parameter of attacher i is an options object the caller handed in, o
\* being the value that object had when it was handed in, and <<>> otherwise.
unified == [attachers |-> <<>>, exc |-> NoExc, targets |-> <<>>]

Throw(p, e) == [p EXCEPT !.exc = e]

\* extend(true, current, primary) on plain objects: primary's members win
Extend(current, primary) ==
  LET old == {i \in 1..Len(current.keys) : ~HasKey(primary, current.keys[i])}
      RECURSIVE Kept(_)
      Kept(i) == IF i > Len(current.keys) THEN <<>>
                 ELSE IF i \in old THEN <<i>> \o Kept(i + 1) ELSE Kept(i + 1)
      k == Kept(1)
  IN Obj([i \in 1..Len(k) |-> current.keys[k[i]]] \o primary.keys,
         [i \in 1..Len(k) |-> current.items[k[i]]] \o primary.items)

\* the parameters of an attacher already present, after use(plugin, ...parameters)
Reconfigured(current, parameters) ==
  IF current # <<>> /\ current[1].t = "object" /\ parameters[1].t = "object"
  THEN <<Extend(current[1], parameters[1])>> \o Tail(parameters)
  ELSE parameters

\* extend(true, current, primary) writes into current: the two are merged
Merges(current, parameters) ==
  current # <<>> /\ current[1].t = "object" /\ parameters[1].t = "object"

\* the options object handed in as first parameter, if there is one
TargetOf(parameters) ==
  IF parameters # <<>> /\ parameters[1].t = "object" THEN <<parameters[1]>> ELSE <<>>

\* the object that is the first parameter of an attacher after it was
\* reconfigured: the one it had when the two were merged, the new one otherwise
Retargeted(target, current, parameters) ==
  IF Merges(current, parameters) THEN target ELSE TargetOf(parameters)

\* addPlugin: a plugin already attached is reconfigured in place, never added
\* twice (unified 10 also resets its options when none are given)
addPlugin(major, p, plugin, parameters) ==
  LET found == {i \in 1..Len(p.attachers) : p.attachers[i].plugin = plugin}
  IN IF found = {}
     THEN [p EXCEPT !.attachers = Append(@, [plugin |-> plugin, parameters |-> parameters]),
                    !.targets = Append(@, TargetOf(parameters))]
     ELSE IF parameters # <<>>
     THEN [p EXCEPT !.attachers[MinOf(found)].parameters = Reconfigured(@, parameters),
                    !.targets[MinOf(found)] =
                       Retargeted(@, p.attachers[MinOf(found)].parameters, parameters)]
     ELSE IF major >= 11 THEN p
     ELSE [p EXCEPT !.attachers[MinOf(found)].parameters = <<>>,
                    !.targets[MinOf(found)] = <<>>]

\* a [plugin, options] entry of a list handed to the processor p, as it is
\* after p was built: the options object is the one the attacher of the
\* plugin holds, with what was merged into it
entryAfterUse(p, entry) ==
  IF /\ IsArray(entry) /\ Len(entry.items) >= 2
     /\ \E i \in 1..Len(p.attachers) :
          p.attachers[i].plugin = entry.items[1] /\ p.targets[i] = <<entry.items[2]>>
  THEN Arr(<<entry.items[1],
             p.attachers[CHOOSE i \in 1..Len(p.attachers) :
                           p.attachers[i].plugin = entry.items[1]].parameters[1]>>
           \o SubSeq(entry.items, 3, Len(entry.items)))
  ELSE entry

\* a list after the processor p was built; handed: whether the list (a shallow
\* copy of it) was handed to p
listAfterUse(p, list, handed) ==
  IF handed
  THEN Arr([i \in 1..Len(list.items) |->
              IF \E j \in 1..(i - 1) : list.items[j] = list.items[i]
              THEN list.items[i]
              ELSE entryAfterUse(p, list.items[i])])
  ELSE list

RECURSIVE add(_, _, _)
RECURSIVE addList(_, _, _)
RECURSIVE addPreset(_, _, _)

\* add(value): one member of a list: a plugin, a [plugin, ...parameters] tuple
\* or a preset
add(major, p, value) ==
  IF value.t = "function" THEN addPlugin(major, p, value, <<>>)
  ELSE IF TypeofObject(value)
  THEN IF IsArray(value)
       THEN addPlugin(major, p, IF value.items = <<>> THEN Undefined ELSE Head(value.items),
                             IF value.items = <<>> THEN <<>> ELSE Tail(value.items))
       ELSE addPreset(major, p, value)
  ELSE Throw(p, UsableTypeError)

\* addList(plugins): every member in order; stops at the first that throws
addList(major, p, plugins) ==
  IF plugins.t \in {"undefined", "null"} THEN p
  ELSE IF ~IsArray(plugins) THEN Throw(p, ListTypeError)
  ELSE IF plugins.items = <<>> THEN p
  ELSE LET q == add(major, p, Head(plugins.items))
       IN IF q.exc.kind # "none" THEN q
          ELSE addList(major, q, Arr(Tail(plugins.items)))

\* addPreset(result): its plugins list (settings are not stages)
addPreset(major, p, result) ==
  IF result.t = "null" THEN Throw(p, NullPresetError)
  ELSE IF major >= 11 /\ ~HasKey(result, "plugins") /\ ~HasKey(result, "settings")
  THEN Throw(p, EmptyPresetError)
  ELSE addList(major, p, Prop(result, "plugins"))

\* processor.use(value), no further arguments
use(major, p, value) ==
  IF p.exc.kind # "none" THEN p
  ELSE IF value.t \in {"undefined", "null"} THEN p
  ELSE IF value.t = "function" THEN addPlugin(major, p, value, <<>>)
  ELSE IF TypeofObject(value)
  THEN IF IsArray(value) THEN addList(major, p, value) ELSE addPreset(major, p, value)
  ELSE Throw(p, UsableTypeError)

\* a stage (plugin) raising while the processor runs
StageError(plugin) == [kind |-> "StageError", reason |-> plugin.s[1]]

\* the attachers applied in order until one raises: [exc, applied].
\* failing: the names of the plugins that raise when applied.
RECURSIVE runAttachers(_, _, _)
runAttachers(attachers, failing, applied) ==
  IF attachers = <<>> THEN [exc |-> NoExc, applied |-> applied]
  ELSE IF Head(attachers).plugin.t # "function"
  THEN [exc |-> NotAFunctionError, applied |-> applied]
  ELSE IF Head(attachers).plugin.s[1] \in failing
  THEN [exc |-> StageError(Head(attachers).plugin), applied |-> applied]
  ELSE runAttachers(Tail(attachers), failing, Append(applied, Head(attachers)))

\* processor.process(body): [exc, applied]; an exception thrown while the
\* processor was built is thrown before any stage is applied
process(p, failing) ==
  IF p.exc.kind # "none"
  THEN [exc |-> p.exc, applied |-> <<>>]
  ELSE runAttachers(p.attachers, failing, <<>>)

\* the stages the service and @mdx-js/mdx attach themselves
remarkParse == Fn("remarkParse")
remarkGfm == Fn("remarkGfm")
remarkRehype == Fn("remarkRehype")
rehypeStringify == Fn("rehypeStringify")
remarkMdx == Fn("remarkMdx")
rehypeRecma == Fn("rehypeRecma")
recmaStringify == Fn("recmaStringify")

BuiltIn ==
  {remarkParse, remarkGfm, remarkRehype, rehypeStringify, remarkMdx, rehypeRecma,
   recmaStringify}

\* ------------------------------------------------------- MdxPipelineConfig

MdxPipelineConfig(remark, rehype, sanitize, slug, autolinkHeadings) ==
  [remarkPlugins |-> remark, rehypePlugins |-> rehype, sanitize |-> sanitize,
   slug |-> slug, autolinkHeadings |-> autolinkHeadings]

\* defaultCfg of the service; also what MdxConfigService's own getConfig returns
defaultCfg ==
  MdxPipelineConfig(Arr(<<>>), Arr(<<>>), Bool("false"), Bool("false"), Bool("false"))

\* ------------------------------------------------------------ sanitization

\* Symbol(description)
Sym(description) == JsVal("symbol", <<"Symbol(" \o description \o ")">>, <<>>, <<>>)

\* a member whose value is the object or array that holds it: a cycle
Circular == JsVal("circular", <<"[Circular]">>, <<>>, <<>>)

\* the RangeError the engine throws when the call stack is exhausted, in the
\* place of the value of the call that threw
StackOverflow == JsVal("thrown", <<"RangeError">>, <<>>, <<>>)

Overflowed(results) == \E i \in 1..Len(results) : results[i] = StackOverflow

\* v.map(toJSONValue): an exception thrown by a call ends the map
mappedArray(results) == IF Overflowed(results) THEN StackOverflow ELSE Arr(results)

\* the for loop filling out: an exception thrown by a call ends the loop
filledObject(names, results) ==
  IF Overflowed(results) THEN StackOverflow ELSE assignAll(Obj(<<>>, <<>>), names, results)

\* toJSONValue(v) called with `frames` calls already on the stack; enclosing
\* lists the objects and arrays being converted around v, outermost first
RECURSIVE toJSONValueAt(_, _, _)
toJSONValueAt(v, enclosing, frames) ==
  IF frames >= MaxCallStack THEN StackOverflow
  ELSE IF v.t = "circular"
  THEN toJSONValueAt(enclosing[Len(enclosing)],
                     SubSeq(enclosing, 1, Len(enclosing) - 1), frames)
  ELSE IF v.t \in {"null", "string", "number", "boolean"} THEN v
  ELSE IF IsArray(v)
  THEN mappedArray([i \in 1..Len(v.items) |->
                      toJSONValueAt(v.items[i], Append(enclosing, v), frames + 1)])
  ELSE IF v.t = "object"
  THEN filledObject(v.keys,
                    [i \in 1..Len(v.items) |->
                       toJSONValueAt(v.items[i], Append(enclosing, v), frames + 1)])
  ELSE Text(v.s)

\* toJSONValue(v)
toJSONValue(v) == toJSONValueAt(v, <<>>, 0)

sanitizeToMetadata(rec) == toJSONValue(rec)

\* the attributes object gray-matter built from the YAML entries
jsObject(data) ==
  Obj([i \in 1..Len(data) |-> data[i].k], [i \in 1..Len(data) |-> Text(data[i].v)])

\* ------------------------------------------------------- compileMdxToHtml
\* Results of the compile operations: [exit, tag, reason, cause, value]

NoOutput == [kind |-> "none"]

\* a failure of parseMdxFile, passed on by yield*
Propagated(r) ==
  [exit |-> r.exit, tag |-> r.tag, reason |-> r.reason, cause |-> r.cause,
   value |-> NoOutput]

\* the catch of Effect.tryPromise
CompileFailureMutNoCause(prefix, error) ==
  [exit |-> "Failure", tag |-> "InvalidMdxFormatError",
   reason |-> <<prefix, error.reason>>, cause |-> NoExc, value |-> NoOutput]

CompileFailure(prefix, error) ==
  [exit |-> "Failure", tag |-> "InvalidMdxFormatError",
   reason |-> <<prefix, error.reason>>, cause |-> error, value |-> NoOutput]

CompileSuccess(value) ==
  [exit |-> "Success", tag |-> "", reason |-> <<>>,
   cause |-> NoExc, value |-> value]

\* the for loops at service.ts:96-102 and :104-110: both branches call base.use(plug)
RECURSIVE usePlugins(_, _, _)
usePlugins(major, base, plugs) ==
  IF plugs = <<>> THEN base
  ELSE usePlugins(major,
                  IF IsArray(Head(plugs))
                  THEN use(major, base, Head(plugs))
                  ELSE use(major, base, Head(plugs)),
                  Tail(plugs))

\* the processor compileMdxToHtml builds
htmlProcessorMutNoPost(major, cfg) ==
  use(major,
      use(major,
          usePlugins(major,
                     use(major, use(major, unified, remarkParse), remarkGfm),
                     cfg.remarkPlugins.items),
          remarkRehype),
      rehypeStringify)

htmlProcessor(major, cfg) ==
  use(major,
      usePlugins(major,
                 use(major,
                     usePlugins(major,
                                use(major, use(major, unified, remarkParse), remarkGfm),
                                cfg.remarkPlugins.items),
                     remarkRehype),
                 cfg.rehypePlugins.items),
      rehypeStringify)

\* out.toString(): the body rendered by the stages applied
Html(body, applied) == [kind |-> "html", of |-> body, stages |-> applied]

\* the Effect.tryPromise of compileMdxToHtml, on what process() did
htmlOutcome(parsed, ran) ==
  [result |-> IF ran.exc.kind # "none"
              THEN CompileFailure("Failed to compile MDX to HTML: ", ran.exc)
              ELSE CompileSuccess(Html(parsed.result.body, ran.applied)),
   cache |-> parsed.cache, applied |-> ran.applied, stageExc |-> ran.exc]

\* the configuration the service holds once the processor p is built: the
\* entries of a configured list are handed to p unless the call overrides the
\* list (Array.from copies the list, not its entries)
configAfterCompile(cfg, options, p) ==
  [cfg EXCEPT !.remarkPlugins =
                 listAfterUse(p, @, ~Truthy(Prop(options, "remarkPlugins"))),
              !.rehypePlugins =
                 listAfterUse(p, @, ~Truthy(Prop(options, "rehypePlugins")))]

\* the two lists a call handed to the processor it built, none when it built no
\* processor
NotHanded == <<>>
Handed(remarkPlugins, rehypePlugins) ==
  <<[remarkPlugins |-> remarkPlugins, rehypePlugins |-> rehypePlugins]>>

\* a call's outcome with the configuration the service holds after it and the
\* lists it handed over
withConfig(outcome, config, handed) ==
  [result |-> outcome.result, cache |-> outcome.cache, applied |-> outcome.applied,
   stageExc |-> outcome.stageExc, cfg |-> config, handed |-> handed]

\* after the processor p was built from the configured lists
htmlAfterBuild(cfg, failing, parsed, p) ==
  withConfig(htmlOutcome(parsed, process(p, failing)),
             configAfterCompile(cfg, Undefined, p),
             Handed(cfg.remarkPlugins, cfg.rehypePlugins))

\* after yield* parseMdxFile(mdxContent)
htmlAfterParse(major, cfg, failing, parsed) ==
  IF parsed.result.exit # "Success"
  THEN [result |-> Propagated(parsed.result), cache |-> parsed.cache,
        applied |-> <<>>, stageExc |-> NoExc, cfg |-> cfg, handed |-> NotHanded]
  ELSE htmlAfterBuild(cfg, failing, parsed, htmlProcessor(major, cfg))

\* [result, cache, applied, stageExc, cfg]: applied lists the attachers run,
\* stageExc is what the pipeline threw, cfg is the configuration the service
\* holds after the call
compileMdxToHtml(c, major, cfg, failing, mdxContent) ==
  htmlAfterParse(major, cfg, failing, parseMdxFile(c, mdxContent))

\* -------------------------------------------------------------- compileMdx

\* options?.remarkPlugins ? Array.from(options.remarkPlugins)
\*                        : Array.from(cfg.remarkPlugins)
pluginsForMutAppend(options, key, configured) ==
  IF Truthy(Prop(options, key))
  THEN Arr(configured.items \o Prop(options, key).items)
  ELSE configured

pluginsFor(options, key, configured) ==
  IF Truthy(Prop(options, key)) THEN Prop(options, key) ELSE configured

\* the processor @mdx-js/mdx builds from the two lists: each list is handed to
\* use() whole
mdxProcessor(major, remarkPlugins, rehypePlugins) ==
  use(major,
      use(major,
          use(major,
              use(major,
                  use(major,
                      use(major, use(major, unified, remarkParse), remarkMdx),
                      remarkPlugins),
                  remarkRehype),
              rehypePlugins),
          rehypeRecma),
      recmaStringify)

\* the CompiledMdxResult
Program(body, applied, attributes) ==
  [kind |-> "program", of |-> body, stages |-> applied,
   frontmatter |-> sanitizeToMetadata(jsObject(attributes))]

\* the Effect.tryPromise of compileMdx, on what mdxCompile did, and the result
mdxOutcome(parsed, ran) ==
  [result |-> IF ran.exc.kind # "none"
              THEN CompileFailure("Failed to compile MDX: ", ran.exc)
              ELSE CompileSuccess(Program(parsed.result.body, ran.applied,
                                          parsed.result.attributes)),
   cache |-> parsed.cache, applied |-> ran.applied, stageExc |-> ran.exc]

\* after mdxCompile built the processor p from the lists handed to it
mdxAfterBuild(cfg, failing, options, parsed, handed, p) ==
  withConfig(mdxOutcome(parsed, process(p, failing)),
             configAfterCompile(cfg, options, p), handed)

\* mdxCompile(parsed.body, {remarkPlugins, rehypePlugins, ...})
mdxCompiled(major, cfg, failing, options, parsed, remarkPlugins, rehypePlugins) ==
  mdxAfterBuild(cfg, failing, options, parsed, Handed(remarkPlugins, rehypePlugins),
                mdxProcessor(major, remarkPlugins, rehypePlugins))

\* after yield* parseMdxFile(mdxContent)
mdxAfterParseMutCoupled(major, cfg, failing, options, parsed) ==
  IF parsed.result.exit # "Success"
  THEN [result |-> Propagated(parsed.result), cache |-> parsed.cache,
        applied |-> <<>>, stageExc |-> NoExc, cfg |-> cfg, handed |-> NotHanded]
  ELSE mdxCompiled(major, cfg, failing, options, parsed,
                   pluginsFor(options, "remarkPlugins", cfg.remarkPlugins),
                   pluginsFor(options, "remarkPlugins", cfg.rehypePlugins))

mdxAfterParse(major, cfg, failing, options, parsed) ==
  IF parsed.result.exit # "Success"
  THEN [result |-> Propagated(parsed.result), cache |-> parsed.cache,
        applied |-> <<>>, stageExc |-> NoExc, cfg |-> cfg, handed |-> NotHanded]
  ELSE mdxCompiled(major, cfg, failing, options, parsed,
                   pluginsFor(options, "remarkPlugins", cfg.remarkPlugins),
                   pluginsFor(options, "rehypePlugins", cfg.rehypePlugins))

\* [result, cache, applied, stageExc, cfg]
compileMdx(c, major, cfg, failing, mdxContent, options) ==
  mdxAfterParse(major, cfg, failing, options, parseMdxFile(c, mdxContent))

\* --------------------------------------------------------- compileForLlmUi

LlmUi(body, attributes) ==
  [kind |-> "llmUi", rawMarkdown |-> body,
   frontmatter |-> sanitizeToMetadata(jsObject(attributes)), llmUiMode |-> TRUE]

llmUiAfterParseMutWrap(parsed) ==
  [result |-> IF parsed.result.exit # "Success"
              THEN CompileFailure("Failed to compile MDX: ", parsed.result.cause)
              ELSE CompileSuccess(LlmUi(parsed.result.body, parsed.result.attributes)),
   cache |-> parsed.cache, applied |-> <<>>, stageExc |-> NoExc]

llmUiAfterParse(parsed) ==
  [result |-> IF parsed.result.exit # "Success"
              THEN Propagated(parsed.result)
              ELSE CompileSuccess(LlmUi(parsed.result.body, parsed.result.attributes)),
   cache |-> parsed.cache, applied |-> <<>>, stageExc |-> NoExc]

\* [result, cache, applied, stageExc]
compileForLlmUi(c, mdxContent) == llmUiAfterParse(parseMdxFile(c, mdxContent))

\* ---------------------------------- validateMdxConfig, extractParameters

\* typeof v === "string" ? v : undefined
StringOrUndefined(v) == IF v.t = "string" THEN v ELSE Undefined

\* typeof rawParams === "object" && rawParams !== null
\*   ? sanitizeToMetadata(rawParams) : undefined
parametersOf(rawParams) ==
  IF TypeofObject(rawParams) /\ rawParams # Null
  THEN sanitizeToMetadata(rawParams)
  ELSE Undefined

\* the MdxConfigValidation the effect succeeds with
validateMdxConfig(attributes) ==
  Obj(<<"provider", "model", "parameters">>,
      <<StringOrUndefined(Prop(attributes, "provider")),
        StringOrUndefined(Prop(attributes, "model")),
        parametersOf(Prop(attributes, "parameters"))>>)

ParameterTypes == {"string", "number", "boolean", "array", "object"}

\* paramsNode && typeof paramsNode === "object" ? paramsNode : {}
paramsObjOf(paramsNode) ==
  IF Truthy(paramsNode) /\ TypeofObject(paramsNode) THEN paramsNode ELSE Obj(<<>>, <<>>)

\* typeof value === "object" && value !== null && "type" in value, then
\* typeof type === "string" && [...].includes(type)
isDefinition(value) ==
  /\ TypeofObject(value) /\ value # Null /\ HasKey(value, "type")
  /\ Prop(value, "type").t = "string"
  /\ Prop(value, "type").s \in {<<k>> : k \in ParameterTypes}

\* the ParameterDefinition built from an entry
definitionOf(paramValue) ==
  Obj(<<"type", "description", "required", "default">>,
      <<Prop(paramValue, "type"),
        StringOrUndefined(Prop(paramValue, "description")),
        IF Prop(paramValue, "required").t = "boolean"
        THEN Prop(paramValue, "required") ELSE Undefined,
        Prop(paramValue, "default")>>)

\* the for loop over Object.entries(paramsObj)
RECURSIVE collectDefinitions(_, _, _)
collectDefinitions(parameters, names, members) ==
  IF names = <<>> THEN parameters
  ELSE collectDefinitions(
         IF isDefinition(Head(members))
         THEN setProperty(parameters, Head(names), definitionOf(Head(members)))
         ELSE parameters,
         Tail(names), Tail(members))

extractParametersFrom(paramsObj) ==
  collectDefinitions(Obj(<<>>, <<>>), OwnKeys(paramsObj), paramsObj.items)

extractParameters(metadata) ==
  extractParametersFrom(paramsObjOf(Prop(metadata, "parameters")))

\* -------------------------------------------------------- MdxConfigService
\* A layer for MdxConfigService is [kind, from, getConfig]; getConfig is what
\* calling the service's getConfig() does: [kind, value] with kind "returns",
\* "nullish" (returns undefined) or "throws".

NoConfig == [kind |-> "none"]

NoLayer == [kind |-> "none", from |-> "", getConfig |-> [kind |-> "none", value |-> NoConfig]]

\* Layer.succeed(MdxConfigService, { getConfig })
LayerSucceed(from, getConfig) ==
  [kind |-> "provided", from |-> from, getConfig |-> getConfig]

Returns(cfg) == [kind |-> "returns", value |-> cfg]

makeMdxConfigLayerFrom(from, cfg) == LayerSucceed(from, Returns(cfg))

makeMdxConfigLayer(cfg) == makeMdxConfigLayerFrom("makeMdxConfigLayer", cfg)

defaultMdxConfigLayer == makeMdxConfigLayer(defaultCfg)

\* the service object of MdxConfigService's own maker
DefaultConfigService == [getConfig |-> Returns(defaultCfg)]

\* v !== false
NotFalse(v) == v # Bool("false")

JsBool(b) == IF b THEN Bool("true") ELSE Bool("false")

\* v ?? d
Coalesce(v, d) == IF v.t \in {"undefined", "null"} THEN d ELSE v

\* DocsPresetOptions; a member left out is undefined
DocsPresetOptions(slug, autolink, sanitize, extraRemark, extraRehype, slugImpl, autolinkImpl, sanitizeImpl) ==
  [slug |-> slug, autolink |-> autolink, sanitize |-> sanitize,
   extraRemark |-> extraRemark, extraRehype |-> extraRehype,
   remarkSlug |-> slugImpl, remarkAutolinkHeadings |-> autolinkImpl,
   rehypeSanitize |-> sanitizeImpl]

\* if (opts.slug !== false && opts.remarkSlug) remark.push(opts.remarkSlug)
slugPushed(slug, plugin) ==
  IF NotFalse(slug) /\ Truthy(plugin) THEN <<plugin>> ELSE <<>>

\* the autolink and sanitize blocks: [plugin, toggle] when the toggle is an
\* object, the plugin alone otherwise
togglePushed(toggle, plugin) ==
  IF NotFalse(toggle) /\ Truthy(plugin)
  THEN IF Truthy(toggle) /\ TypeofObject(toggle)
       THEN <<Arr(<<plugin, toggle>>)>>
       ELSE <<plugin>>
  ELSE <<>>

\* if (list) target.push(...list)
spreadPushed(list) == IF Truthy(list) THEN list.items ELSE <<>>

docsPresetLayerMutIgnoreToggle(opts) ==
  makeMdxConfigLayerFrom("docsPresetLayer",
    MdxPipelineConfig(
      Arr(slugPushed(Undefined, opts.remarkSlug)
            \o togglePushed(Undefined, opts.remarkAutolinkHeadings)
            \o spreadPushed(opts.extraRemark)),
      Arr(togglePushed(Undefined, opts.rehypeSanitize)
            \o spreadPushed(opts.extraRehype)),
      Coalesce(opts.sanitize, Obj(<<>>, <<>>)),
      JsBool(NotFalse(opts.slug)),
      JsBool(NotFalse(opts.autolink))))

docsPresetLayerMutExtrasFirst(opts) ==
  makeMdxConfigLayerFrom("docsPresetLayer",
    MdxPipelineConfig(
      Arr(spreadPushed(opts.extraRemark)
            \o slugPushed(opts.slug, opts.remarkSlug)
            \o togglePushed(opts.autolink, opts.remarkAutolinkHeadings)),
      Arr(spreadPushed(opts.extraRehype)
            \o togglePushed(opts.sanitize, opts.rehypeSanitize)),
      Coalesce(opts.sanitize, Obj(<<>>, <<>>)),
      JsBool(NotFalse(opts.slug)),
      JsBool(NotFalse(opts.autolink))))

docsPresetLayer(opts) ==
  makeMdxConfigLayerFrom("docsPresetLayer",
    MdxPipelineConfig(
      Arr(slugPushed(opts.slug, opts.remarkSlug)
            \o togglePushed(opts.autolink, opts.remarkAutolinkHeadings)
            \o spreadPushed(opts.extraRemark)),
      Arr(togglePushed(opts.sanitize, opts.rehypeSanitize)
            \o spreadPushed(opts.extraRehype)),
      Coalesce(opts.sanitize, Obj(<<>>, <<>>)),
      JsBool(NotFalse(opts.slug)),
      JsBool(NotFalse(opts.autolink))))

\* ---------------------------------------------- MdxService: cfg resolution
\* The outcome of an effect here is [exit, cfg, exc]: exit is "Success",
\* "Failure" (an error in the typed channel) or "Die" (a defect).

\* What the expression MdxConfigService.scoped evaluates to. The class is made
\* by Effect.Service; service.ts reads a static member `scoped` of it through a
\* cast. "absent": the class has no such member (the expression is undefined);
\* "maker": the member is the maker effect given to Effect.Service.
ScopedStatics == {"absent", "maker"}

NotIterableError == [kind |-> "TypeError", reason |-> "undefined is not iterable"]

GetConfigError == [kind |-> "Error", reason |-> "getConfig"]

Succeeded(cfg) == [exit |-> "Success", cfg |-> cfg, exc |-> NoExc]

Died(exc) == [exit |-> "Die", cfg |-> NoConfig, exc |-> exc]

\* return cfgSvc.getConfig() ?? defaultCfg, inside Effect.gen: an exception
\* thrown by getConfig() is a defect of the generator
configOfService(cfgSvc) ==
  IF cfgSvc.getConfig.kind = "throws" THEN Died(GetConfigError)
  ELSE IF cfgSvc.getConfig.kind = "nullish" THEN Succeeded(defaultCfg)
  ELSE Succeeded(cfgSvc.getConfig.value)

\* the inner Effect.gen of service.ts:39-48. context is the layer provided for
\* MdxConfigService: the generator yields MdxConfigService.scoped, never the
\* tag MdxConfigService, so the context is not read.
innerGen(scopedStatic, context) ==
  IF scopedStatic = "absent"
  THEN Died(NotIterableError)
  ELSE configOfService(DefaultConfigService)

\* Effect.catchAll(effect, () => Effect.succeed(defaultCfg)): recovers from
\* failures of the typed channel; a defect passes through
catchAllDefault(outcome) ==
  IF outcome.exit = "Failure" THEN Succeeded(defaultCfg) ELSE outcome

\* const cfg = yield* Effect.catchAll(Effect.gen(...), ...) of the scoped
\* constructor: the outcome of constructing the service, with the cfg it holds
cfgResolution(scopedStatic, context) == catchAllDefault(innerGen(scopedStatic, context))

\* ------------------------------------------------------------------ inputs

\* The lines documents are made of: the fence, four dashes, an entry, an entry
\* whose plain scalar holds one double quote, an entry with an unclosed flow
\* sequence, a markdown heading (a comment to the YAML engine).
Vocabulary ==
  { Fence,
    <<DASH, DASH, DASH, DASH>>,
    <<"a", COLON, SP, "x">>,
    <<"a", COLON, SP, "x", DQ>>,
    <<"a", COLON, SP, LBRACK, "x">>,
    <<HASH, "t">> }

LineSeqs == UNION {[1..n -> Vocabulary] : n \in 0..MaxLines}

\* every text of at most MaxLines lines
Documents == {JoinLines(ls) : ls \in LineSeqs}

Entry(key, value) == [k |-> key, v |-> value]

\* updatedFrontmatter arguments: a new key, a value holding a double quote
Frontmatters ==
  { <<Entry("b", <<"x">>)>>,
    <<Entry("a", <<"x", DQ>>)>> }

\* what the caller passes as updatedFrontmatter: the metadata parseMdxFile(doc)
\* returned (own), or the mapping fm
FmArgs ==
  {[own |-> TRUE, fm |-> NoData]} \cup {[own |-> FALSE, fm |-> f] : f \in Frontmatters}

\* ---------------------------------------------------------- pipeline inputs

\* user-supplied plugins and an options payload ({ behavior: "wrap" })
PluginA == Fn("A")
PluginB == Fn("B")
WrapOptions == Obj(<<"behavior">>, <<Str("wrap")>>)

\* entries of a plugin list: bare plugins and a [plugin, options] pair
DepthOptions == Obj(<<"depth">>, <<Num("2")>>)

Pluggables == {PluginA, PluginB, Arr(<<PluginA, WrapOptions>>)}

StageLists == {Arr(l) : l \in UNION {[1..n -> Pluggables] : n \in 0..MaxStages}}

\* the rehypePlugins lists configured: none, one, two in either order, a pair
PostLists ==
  { Arr(<<>>), Arr(<<PluginA>>), Arr(<<PluginA, PluginB>>), Arr(<<PluginB, PluginA>>),
    Arr(<<Arr(<<PluginA, WrapOptions>>)>>) }

\* the configurations a service can hold
PipelineConfigs ==
  {MdxPipelineConfig(pre, post, Bool("false"), Bool("false"), Bool("false")) :
     pre \in StageLists, post \in PostLists}

\* which plugins raise during a call: none, a configured one, a built-in one
Failings == {{}, {"A"}, {"remarkRehype"}}

\* the options argument of compileMdx: absent, or with per-call plugin lists
CompileOptions ==
  { Undefined,
    Obj(<<"remarkPlugins">>, <<Arr(<<>>)>>),
    Obj(<<"rehypePlugins">>, <<Arr(<<>>)>>),
    Obj(<<"remarkPlugins">>, <<Arr(<<PluginB>>)>>),
    Obj(<<"remarkPlugins", "rehypePlugins">>,
        <<Arr(<<Arr(<<PluginB, WrapOptions>>)>>), Arr(<<PluginA>>)>>),
    Obj(<<"rehypePlugins">>, <<Arr(<<Arr(<<PluginA, DepthOptions>>)>>)>>) }

\* texts the compile operations are called on: a header and a body, no header,
\* a header the codec rejects, a header the fence heuristic rejects
PipelineDocs ==
  { JoinLines(<<Fence, <<"a", COLON, SP, "x">>, Fence, <<HASH, "t">>>>),
    <<HASH, "t">>,
    JoinLines(<<Fence, <<"a", COLON, SP, LBRACK, "x">>>>),
    JoinLines(<<Fence, <<"a", COLON, SP, "x", DQ>>, Fence>>) }

\* the stage implementations a caller hands to docsPresetLayer
remarkSlug == Fn("remarkSlug")
remarkAutolinkHeadings == Fn("remarkAutolinkHeadings")
rehypeSanitize == Fn("rehypeSanitize")

\* the extraRemark and extraRehype of the options: none, or one stage each
ExtraStages ==
  { <<Undefined, Undefined>>, <<Arr(<<PluginA>>), Arr(<<PluginB>>)>>,
    <<Arr(<<PluginA, PluginB>>), Arr(<<PluginB, PluginA>>)>> }

\* the options docsPresetLayer is called with
DocsPresetOptionSets ==
  { DocsPresetOptions(slug, autolink, sanitize, extra[1], extra[2], s, a, r) :
      slug \in {Undefined, Bool("true"), Bool("false")},
      autolink \in {Undefined, Bool("true"), Bool("false"), WrapOptions},
      sanitize \in {Undefined, Bool("false"), Obj(<<>>, <<>>)},
      extra \in ExtraStages,
      s \in {Undefined, remarkSlug},
      a \in {Undefined, remarkAutolinkHeadings},
      r \in {Undefined, rehypeSanitize} }

\* the configurations handed to makeMdxConfigLayer
InjectedConfigs ==
  { MdxPipelineConfig(Arr(<<PluginA>>), Arr(<<PluginB>>), Bool("false"), Bool("false"),
                      Bool("false")),
    MdxPipelineConfig(Arr(<<>>), Arr(<<>>), Obj(<<>>, <<>>), Bool("true"), Bool("true")) }

\* what the getConfig of a hand-written service does besides returning a config
GetConfigFaults ==
  { [kind |-> "nullish", value |-> NoConfig], [kind |-> "throws", value |-> NoConfig] }

\* the values an entry of parameters takes: three definitions, an unknown
\* type, a type that is no string, no type, values that are no mapping, and
\* values JSON cannot hold: a function, a symbol, an undefined member, an
\* object that holds itself
ParamValues ==
  { Obj(<<"type", "description", "required">>, <<Str("string"), Str("A"), Bool("true")>>),
    Obj(<<"type", "default">>, <<Str("number"), Num("1")>>),
    Obj(<<"type">>, <<Str("array")>>),
    Obj(<<"type">>, <<Str("date")>>),
    Obj(<<"type">>, <<Num("1")>>),
    Obj(<<"description">>, <<Str("A")>>),
    Str("ignore"),
    Null,
    Arr(<<Str("type")>>),
    Fn("f"),
    Sym("x"),
    Obj(<<"f", "u">>, <<Fn("f"), Undefined>>),
    Obj(<<"self">>, <<Circular>>) }

\* the names of the entries, in the order they are written
ParamNames == <<"a", "__proto__", "type">>

\* the sequences of names taken in order from ParamNames, MaxParams at most
ParamNameLists ==
  { names \in UNION {[1..n -> 1..Len(ParamNames)] : n \in 0..MaxParams} :
      \A i \in 1..Len(names) - 1 : names[i] < names[i + 1] }

\* what the parameters member is: missing, null, a scalar, an array, a mapping
ParamNodes ==
  {Undefined, Null, Str("x"), Num("0"), Bool("true")}
    \cup {Arr(members) : members \in UNION {[1..n -> ParamValues] : n \in 0..MaxParams}}
    \cup UNION { {Obj([i \in 1..Len(names) |-> ParamNames[names[i]]], members) :
                    members \in [1..Len(names) -> ParamValues]} :
                 names \in ParamNameLists }

\* an object literal without the members that are undefined
RECURSIVE Literal(_, _)
Literal(names, members) ==
  IF names = <<>> THEN Obj(<<>>, <<>>)
  ELSE IF Head(members) = Undefined THEN Literal(Tail(names), Tail(members))
  ELSE Obj(<<Head(names)>> \o Literal(Tail(names), Tail(members)).keys,
           <<Head(members)>> \o Literal(Tail(names), Tail(members)).items)

\* provider, model and a member the helpers do not know
KnownFields ==
  { <<Str("openai"), Str("gpt-4o"), Num("1")>>,
    <<Undefined, Null, Undefined>>,
    <<Num("1"), Undefined, Str("x")>> }

\* the frontmatters the helpers are called on
Metadatas ==
  { Literal(<<"provider", "model", "parameters", "extra">>,
            <<known[1], known[2], node, known[3]>>) :
      known \in KnownFields, node \in ParamNodes }

\* ------------------------------------------------------------------- state

VARIABLES
  doc,        \* the text the calls are made on (the content of the file read)
  fmArg,      \* the updatedFrontmatter the caller passes, one of FmArgs
  cache,      \* matter.cache of the gray-matter module the service imports
  call,       \* the last call: [op, result, codecCalls, codecExc]
  firstParse, \* the result of the first parseMdxFile(doc)
  upd,        \* the last updateMdxContent(doc, fm): [made, thrown, exc, value, fm]
  cfg,        \* the MdxPipelineConfig the service holds
  unifiedMajor, \* the major version of unified installed
  run,        \* the last compile call: [op, options, failing, result, applied, stageExc]
  opts,       \* the DocsPresetOptions the application has at hand
  layer,      \* the layer provided for MdxConfigService, NoLayer if none
  scopedStatic, \* what MdxConfigService.scoped is in the Effect build installed
  built,      \* the outcome of constructing MdxService: [exit, cfg, exc]
  metadata,   \* the frontmatter handed to validateMdxConfig and extractParameters
  extraction, \* the last of those calls: [op, thrown, value]
  calls       \* the calls running concurrently: [op, text, pc, parsed, result, applied]

vars ==
  <<doc, fmArg, cache, call, firstParse, upd, cfg, unifiedMajor, run, opts, layer,
    scopedStatic, built, metadata, extraction, calls>>

\* the variables of the construction of the service
configVars == <<opts, layer, scopedStatic, built>>

\* the variables of the frontmatter helpers
metaVars == <<metadata, extraction>>

\* the variables of the compile operations
pipelineVars == <<cfg, unifiedMajor, run>>

\* the variables of the document operations, the cache apart
documentVars == <<fmArg, call, firstParse, upd>>

EmptyCache == [t \in {} |-> None]

NoUpdate == [made |-> FALSE, thrown |-> FALSE, exc |-> NoExc, value |-> <<>>,
             fm |-> NoData]

\* no compile call made yet
IdleResult ==
  [exit |-> "none", tag |-> "", reason |-> <<>>, cause |-> NoExc, value |-> NoOutput]

NoRun ==
  [op |-> "none", options |-> Undefined, failing |-> {}, result |-> IdleResult,
   applied |-> <<>>, stageExc |-> NoExc, handed |-> NotHanded]

NoCall == [op |-> "none", result |-> None, codecCalls |-> 0, codecExc |-> NoExc]

NoOptions ==
  DocsPresetOptions(Undefined, Undefined, Undefined, Undefined, Undefined, Undefined,
                    Undefined, Undefined)

NotBuilt == [exit |-> "none", cfg |-> NoConfig, exc |-> NoExc]

NoExtraction == [op |-> "none", thrown |-> FALSE, value |-> Undefined]

\* no calls run concurrently
NoCalls == <<>>

\* the construction of the service is not followed
ConfigIdle ==
  /\ opts = NoOptions
  /\ layer = NoLayer
  /\ scopedStatic = "maker"
  /\ built = NotBuilt

\* no frontmatter helper is called
MetaIdle ==
  /\ metadata = Undefined
  /\ extraction = NoExtraction

\* a service with the default configuration on which no compile call is made
PipelineIdle ==
  /\ cfg = defaultCfg
  /\ unifiedMajor = MaxOf(UnifiedMajors)
  /\ run = NoRun

Init ==
  /\ doc \in Documents
  /\ fmArg \in FmArgs
  /\ cache = EmptyCache
  /\ call = [op |-> "none", result |-> None, codecCalls |-> 0, codecExc |-> NoExc]
  /\ firstParse = None
  /\ upd = NoUpdate
  /\ PipelineIdle
  /\ ConfigIdle
  /\ MetaIdle
  /\ calls = NoCalls

\* validateFrontmatterFence(doc), called on its own
ValidateDoc ==
  /\ call' = [op |-> "validateFrontmatterFence",
              result |-> IF validateFrontmatterFence(doc)
                         THEN Die(UnbalancedQuotes)
                         ELSE ParseSuccess(NoData, <<>>),
              codecCalls |-> 0, codecExc |-> NoExc]
  /\ UNCHANGED <<doc, fmArg, cache, firstParse, upd>>
  /\ UNCHANGED pipelineVars
  /\ UNCHANGED <<configVars, metaVars, calls>>

\* svc.parseMdxFile(doc)
ParseDoc ==
  \E r \in {parseMdxFile(cache, doc)} :
     /\ call' = [op |-> "parseMdxFile", result |-> r.result,
                codecCalls |-> r.codecCalls, codecExc |-> r.codecExc]
     /\ cache' = r.cache
     /\ firstParse' = IF firstParse = None THEN r.result ELSE firstParse
     /\ UNCHANGED <<doc, fmArg, upd>>
     /\ UNCHANGED pipelineVars
     /\ UNCHANGED <<configVars, metaVars, calls>>

\* svc.readMdxAndFrontmatter(path), the file holding doc or missing
ReadDoc ==
  \E exists \in BOOLEAN :
    \E r \in {readMdxAndFrontmatter(cache, exists, doc)} :
       /\ call' = [op |-> "readMdxAndFrontmatter", result |-> r.result,
                   codecCalls |-> r.codecCalls, codecExc |-> r.codecExc]
       /\ cache' = r.cache
       /\ UNCHANGED <<doc, fmArg, firstParse, upd>>
       /\ UNCHANGED pipelineVars
       /\ UNCHANGED <<configVars, metaVars, calls>>

\* the updatedFrontmatter of the next updateMdxContent call
FmChoices ==
  IF fmArg.own
  THEN (IF firstParse.exit = "Success" THEN {firstParse.attributes} ELSE {})
  ELSE {fmArg.fm}

\* svc.updateMdxContent(doc, fm)
UpdateDoc ==
  \E fm \in FmChoices :
    \E u \in {updateMdxContent(cache, doc, fm)} :
       /\ upd' = [made |-> TRUE, thrown |-> u.thrown, exc |-> u.exc, value |-> u.value,
                  fm |-> fm]
       /\ call' = [op |-> "updateMdxContent",
                   result |-> IF u.thrown THEN Die(u.exc) ELSE ParseSuccess(NoData, u.value),
                   codecCalls |-> 0, codecExc |-> u.exc]
       /\ cache' = u.cache
       /\ UNCHANGED <<doc, fmArg, firstParse>>
       /\ UNCHANGED pipelineVars
       /\ UNCHANGED <<configVars, metaVars, calls>>

\* svc.parseMdxFile(text) on the text updateMdxContent returned
ParseUpdated ==
  /\ upd.made /\ ~upd.thrown
  /\ \E r \in {parseMdxFile(cache, upd.value)} :
        /\ call' = [op |-> "parseMdxFile(updated)", result |-> r.result,
                    codecCalls |-> r.codecCalls, codecExc |-> r.codecExc]
        /\ cache' = r.cache
  /\ UNCHANGED <<doc, fmArg, firstParse, upd>>
  /\ UNCHANGED pipelineVars
  /\ UNCHANGED <<configVars, metaVars, calls>>

Next ==
  \/ ValidateDoc
  \/ ParseDoc
  \/ ReadDoc
  \/ UpdateDoc
  \/ ParseUpdated

Spec == Init /\ [][Next]_vars

\* ------------------------------------------------- the compile operations

\* a service holding any configuration, before its first call
PipelineInit ==
  /\ doc \in PipelineDocs
  /\ cfg \in PipelineConfigs
  /\ unifiedMajor \in UnifiedMajors
  /\ run = NoRun
  /\ cache = EmptyCache
  /\ fmArg = [own |-> TRUE, fm |-> NoData]
  /\ call = NoCall
  /\ firstParse = None
  /\ upd = NoUpdate
  /\ ConfigIdle
  /\ MetaIdle
  /\ calls = NoCalls

Ran(op, options, failing, r) ==
  [op |-> op, options |-> options, failing |-> failing, result |-> r.result,
   applied |-> r.applied, stageExc |-> r.stageExc,
   handed |-> IF "handed" \in DOMAIN r THEN r.handed ELSE NotHanded]

\* svc.compileMdxToHtml(doc)
CompileMdxToHtml ==
  \E failing \in Failings :
    \E r \in {compileMdxToHtml(cache, unifiedMajor, cfg, failing, doc)} :
      /\ run' = Ran("compileMdxToHtml", Undefined, failing, r)
      /\ cache' = r.cache
      /\ cfg' = r.cfg
      /\ UNCHANGED <<doc, unifiedMajor>>
      /\ UNCHANGED documentVars
      /\ UNCHANGED <<configVars, metaVars, calls>>

\* svc.compileMdx(doc, options)
CompileMdx ==
  \E failing \in Failings, options \in CompileOptions :
    \E r \in {compileMdx(cache, unifiedMajor, cfg, failing, doc, options)} :
      /\ run' = Ran("compileMdx", options, failing, r)
      /\ cache' = r.cache
      /\ cfg' = r.cfg
      /\ UNCHANGED <<doc, unifiedMajor>>
      /\ UNCHANGED documentVars
      /\ UNCHANGED <<configVars, metaVars, calls>>

\* svc.compileForLlmUi(doc)
CompileForLlmUi ==
  \E r \in {compileForLlmUi(cache, doc)} :
    /\ run' = Ran("compileForLlmUi", Undefined, {}, r)
    /\ cache' = r.cache
    /\ UNCHANGED <<doc, cfg, unifiedMajor>>
    /\ UNCHANGED documentVars
    /\ UNCHANGED <<configVars, metaVars, calls>>

PipelineNext ==
  \/ CompileMdxToHtml
  \/ CompileMdx
  \/ CompileForLlmUi

PipelineSpec == PipelineInit /\ [][PipelineNext]_vars

\* --------------------------------------------- the construction of the service

\* no call is made on the service
CallsIdle ==
  /\ doc = <<HASH, "t">>
  /\ cache = EmptyCache
  /\ fmArg = [own |-> TRUE, fm |-> NoData]
  /\ call = NoCall
  /\ firstParse = None
  /\ upd = NoUpdate
  /\ unifiedMajor = MaxOf(UnifiedMajors)
  /\ run = NoRun
  /\ calls = NoCalls

callVars == <<doc, cache, fmArg, call, firstParse, upd, unifiedMajor, run, calls>>

\* an application before it provides a layer and constructs the service
ConfigInit ==
  /\ opts \in DocsPresetOptionSets
  /\ layer = NoLayer
  /\ scopedStatic \in ScopedStatics
  /\ built = NotBuilt
  /\ cfg = defaultCfg
  /\ CallsIdle
  /\ MetaIdle

\* Effect.provide(docsPresetLayer(opts))
ProvideDocsPreset ==
  /\ layer = NoLayer /\ built = NotBuilt
  /\ layer' = docsPresetLayer(opts)
  /\ UNCHANGED <<opts, scopedStatic, built, cfg>>
  /\ UNCHANGED <<callVars, metaVars>>

\* Effect.provide(makeMdxConfigLayer(c))
ProvideConfig ==
  /\ layer = NoLayer /\ built = NotBuilt
  /\ \E c \in InjectedConfigs : layer' = makeMdxConfigLayer(c)
  /\ UNCHANGED <<opts, scopedStatic, built, cfg>>
  /\ UNCHANGED <<callVars, metaVars>>

\* Effect.provide(Layer.succeed(MdxConfigService, { getConfig })) with a
\* getConfig that returns nothing or throws
ProvideFaulty ==
  /\ layer = NoLayer /\ built = NotBuilt
  /\ \E g \in GetConfigFaults : layer' = LayerSucceed("Layer.succeed", g)
  /\ UNCHANGED <<opts, scopedStatic, built, cfg>>
  /\ UNCHANGED <<callVars, metaVars>>

\* yield* MdxService: the scoped constructor runs, with or without a layer
Construct ==
  /\ built = NotBuilt
  /\ \E b \in {cfgResolution(scopedStatic, layer)} :
       /\ built' = b
       /\ cfg' = IF b.exit = "Success" THEN b.cfg ELSE cfg
  /\ UNCHANGED <<opts, layer, scopedStatic>>
  /\ UNCHANGED <<callVars, metaVars>>

ConfigNext ==
  \/ ProvideDocsPreset
  \/ ProvideConfig
  \/ ProvideFaulty
  \/ Construct

ConfigSpec == ConfigInit /\ [][ConfigNext]_vars

\* ------------------------------------------------- the frontmatter helpers

\* a frontmatter before a helper is called on it
MetaInit ==
  /\ metadata \in Metadatas
  /\ extraction = NoExtraction
  /\ cfg = defaultCfg
  /\ CallsIdle
  /\ ConfigIdle

\* a call that returned r, or threw when r is the exception
Extracted(op, r) ==
  [op |-> op, thrown |-> r = StackOverflow,
   value |-> IF r = StackOverflow THEN Undefined ELSE r]

\* svc.validateMdxConfig(metadata): the effect has no failure; what
\* sanitizeToMetadata throws inside Effect.gen is a defect
ValidateMdxConfig ==
  /\ \E r \in {validateMdxConfig(metadata)} :
       extraction' = Extracted("validateMdxConfig",
                               IF Overflowed(r.items) THEN StackOverflow ELSE r)
  /\ UNCHANGED <<metadata, cfg>>
  /\ UNCHANGED <<callVars, configVars>>

\* sanitizeToMetadata(metadata)
SanitizeToMetadata ==
  /\ extraction' = Extracted("sanitizeToMetadata", sanitizeToMetadata(metadata))
  /\ UNCHANGED <<metadata, cfg>>
  /\ UNCHANGED <<callVars, configVars>>

\* svc.extractParameters(metadata)
ExtractParameters ==
  /\ extraction' = [op |-> "extractParameters", thrown |-> FALSE,
                    value |-> extractParameters(metadata)]
  /\ UNCHANGED <<metadata, cfg>>
  /\ UNCHANGED <<callVars, configVars>>

MetaNext ==
  \/ ValidateMdxConfig
  \/ ExtractParameters
  \/ SanitizeToMetadata

MetaSpec == MetaInit /\ [][MetaNext]_vars

\* --------------------------------------------------------- concurrent calls
\* Calls started together on one service. parseMdxFile is Effect.try around
\* synchronous code, so the parse of a call is one step; the compile
\* operations then await the processor, so rendering is a later step and the
\* steps of other calls run in between.

ConcurrentOps == {"compileMdxToHtml", "compileMdx", "compileForLlmUi"}

NoParse == [result |-> None, cache |-> EmptyCache, codecCalls |-> 0, codecExc |-> NoExc]

Started(op, text) ==
  [op |-> op, text |-> text, pc |-> "ready", parsed |-> NoParse,
   result |-> IdleResult, applied |-> <<>>]

Finished(c, r) == [c EXCEPT !.pc = "done", !.result = r.result, !.applied = r.applied]

\* the call after yield* parseMdxFile(text) returned parsed: compileForLlmUi
\* returns, a failure ends the generator, otherwise the call awaits the
\* processor
afterParseStep(c, parsed) ==
  IF c.op = "compileForLlmUi" THEN Finished(c, llmUiAfterParse(parsed))
  ELSE IF parsed.result.exit # "Success"
  THEN Finished(c, [result |-> Propagated(parsed.result), applied |-> <<>>])
  ELSE [c EXCEPT !.pc = "parsed", !.parsed = parsed]

\* the call after the processor is done
afterRenderStep(major, config, c) ==
  IF c.op = "compileMdxToHtml"
  THEN Finished(c, htmlAfterParse(major, config, {}, c.parsed))
  ELSE Finished(c, mdxAfterParse(major, config, {}, Undefined, c.parsed))

\* what the call returns on a service on which nothing else runs or has run
alone(major, config, op, text) ==
  IF op = "compileMdxToHtml" THEN compileMdxToHtml(EmptyCache, major, config, {}, text).result
  ELSE IF op = "compileMdx"
  THEN compileMdx(EmptyCache, major, config, {}, text, Undefined).result
  ELSE compileForLlmUi(EmptyCache, text).result

\* MaxCalls calls started on a service whose configuration holds one stage
ConcurrentInit ==
  /\ calls \in [1..MaxCalls -> {Started(op, text) : op \in ConcurrentOps, text \in PipelineDocs}]
  /\ cache = EmptyCache
  /\ cfg = MdxPipelineConfig(Arr(<<PluginA>>), Arr(<<PluginB>>), Bool("false"),
                             Bool("false"), Bool("false"))
  /\ unifiedMajor = MaxOf(UnifiedMajors)
  /\ doc = <<HASH, "t">>
  /\ fmArg = [own |-> TRUE, fm |-> NoData]
  /\ call = NoCall
  /\ firstParse = None
  /\ upd = NoUpdate
  /\ run = NoRun
  /\ ConfigIdle
  /\ MetaIdle

\* call i runs up to the end of its parseMdxFile
ParseStep(i) ==
  /\ calls[i].pc = "ready"
  /\ \E parsed \in {parseMdxFile(cache, calls[i].text)} :
       /\ calls' = [calls EXCEPT ![i] = afterParseStep(calls[i], parsed)]
       /\ cache' = parsed.cache
  /\ UNCHANGED <<doc, fmArg, call, firstParse, upd, cfg, unifiedMajor, run>>
  /\ UNCHANGED <<configVars, metaVars>>

\* call i resumes when its processor is done
RenderStep(i) ==
  /\ calls[i].pc = "parsed"
  /\ calls' = [calls EXCEPT ![i] = afterRenderStep(unifiedMajor, cfg, calls[i])]
  /\ UNCHANGED <<doc, fmArg, cache, call, firstParse, upd, cfg, unifiedMajor, run>>
  /\ UNCHANGED <<configVars, metaVars>>

ConcurrentNext ==
  \/ \E i \in 1..MaxCalls : ParseStep(i)
  \/ \E i \in 1..MaxCalls : RenderStep(i)

ConcurrentSpec == ConcurrentInit /\ [][ConcurrentNext]_vars

\* ------------------------------------------------------------------ claims

\* the text starts with the three-character fence marker
HasOpeningFence(text) == StartsWith(text, Fence)

\* the first later occurrence of a line starting with the marker, -1 if none
ClosingAt(text) == IndexOf(text, CloseFence, 3)

\* the text between the opening marker and that line
HeaderRegion(text) == Slice(text, 3, ClosingAt(text))

OddQuotes(s) == CountDq(s) % 2 = 1

FirstLine(text) == SplitLines(text)[1]

\* no line after the first is exactly the marker
NoMarkerLineAfterFirst(text) ==
  \A i \in 2..Len(SplitLines(text)) : SplitLines(text)[i] # Fence

\* two metadata mappings hold the same keys with equal values
SameMetadata(a, b) == {a[i] : i \in 1..Len(a)} = {b[i] : i \in 1..Len(b)}

ParsedDoc == call.op = "parseMdxFile"
ParsedUpdated == call.op = "parseMdxFile(updated)"
Validated == call.op = "validateFrontmatterFence"

C3_NotExactMarkerPasses ==
  (Validated /\ FirstLine(doc) # Fence) => call.result.exit = "Success"

\* C4 as claimed: with the opening marker and no later marker line, the header
\* region is everything after the opening marker: validation fails iff that
\* region holds an odd number of double quotes.
C4_NoClosingCountsRest ==
  (Validated /\ FirstLine(doc) = Fence /\ NoMarkerLineAfterFirst(doc)) =>
    (call.result.exit # "Success" <=> OddQuotes(SliceFrom(doc, 3)))

\* C4 amended: with the opening marker and no later line starting with '---',
\* validateFrontmatterFence makes no quote check and succeeds.
C4_NoClosingPasses ==
  (Validated /\ HasOpeningFence(doc) /\ ClosingAt(doc) = -1) =>
    call.result.exit = "Success"

\* an unclosed header with an odd number of double quotes was validated
C4_Witness ==
  /\ Validated
  /\ FirstLine(doc) = Fence
  /\ ClosingAt(doc) = -1
  /\ OddQuotes(SliceFrom(doc, 3))

\* C5: whenever matter() throws during parseMdxFile, the call returns the typed
\* failure InvalidMdxFormatError whose cause is the codec's exception; it never
\* ends in a defect.
C5_CodecExceptionIsWrapped ==
  ((ParsedDoc \/ ParsedUpdated) /\ call.codecExc # NoExc) =>
    /\ call.result.exit = "Failure"
    /\ call.result.tag = "InvalidMdxFormatError"
    /\ call.result.cause = call.codecExc

\* a text that passed the fence heuristic made the YAML engine throw
C5_Witness ==
  /\ ParsedDoc
  /\ ~validateFrontmatterFence(doc)
  /\ call.codecExc = YAMLException

\* C6: readMdxAndFrontmatter only fails with typed results: the file system's
\* error when the file cannot be read, InvalidMdxFormatError when the header is
\* rejected; no codec exception escapes untyped.
C6_ReadFailsTyped ==
  call.op = "readMdxAndFrontmatter" =>
    \/ call.result.exit = "Success" /\ ~validateFrontmatterFence(doc)
    \/ call.result.exit = "Failure"
         /\ call.result.tag \in {"PlatformError", "InvalidMdxFormatError"}

\* C7: round trip: for d = parseMdxFile(doc), parsing
\* updateMdxContent(doc, d.attributes) succeeds with d's body and d's metadata.
C7_RoundTrip ==
  (ParsedUpdated /\ fmArg.own) =>
    /\ call.result.exit = "Success"
    /\ call.result.body = firstParse.body
    /\ SameMetadata(call.result.attributes, firstParse.attributes)

\* the body with its final newline added when it has none
UpToFinalNewline(body) == {body, newline(body)}

\* C8: parsing updateMdxContent(doc, fm) yields exactly the metadata fm, and the
\* body of doc (here: up to its final newline).
C8_OldHeaderDiscarded ==
  (ParsedUpdated /\ ~fmArg.own /\ firstParse.exit = "Success") =>
    /\ call.result.exit = "Success"
    /\ SameMetadata(call.result.attributes, upd.fm)
    /\ call.result.body \in UpToFinalNewline(firstParse.body)

\* C9: updateMdxContent never throws on a text parseMdxFile accepted.
C9_UpdateNeverThrows ==
  (call.op = "updateMdxContent" /\ firstParse.exit = "Success") =>
    call.result.exit = "Success"

\* C10: every parseMdxFile(doc) returns what the first parseMdxFile(doc) returned.
C10_ParseIdempotent ==
  ParsedDoc => call.result = firstParse

\* ------------------------------------------------- claims on the pipeline

\* the stage and options each entry of a plugin list stands for
StagesOf(list) ==
  [i \in 1..Len(list.items) |->
     IF IsArray(list.items[i])
     THEN [plugin |-> Head(list.items[i].items), parameters |-> Tail(list.items[i].items)]
     ELSE [plugin |-> list.items[i], parameters |-> <<>>]]

IsUserStage(a) == a.plugin \notin BuiltIn

\* where the core transform stands among the stages applied (past the end if
\* it was not reached)
CoreAt(applied) ==
  IF \E i \in 1..Len(applied) : applied[i].plugin = remarkRehype
  THEN CHOOSE i \in 1..Len(applied) : applied[i].plugin = remarkRehype
  ELSE Len(applied) + 1

\* the user stages applied before and after the core transform
PreApplied(applied) ==
  SelectSeq(SubSeq(applied, 1, CoreAt(applied) - 1), IsUserStage)

PostApplied(applied) ==
  SelectSeq(SubSeq(applied, CoreAt(applied) + 1, Len(applied)), IsUserStage)

\* the plugins named by a list
PluginsOf(list) == {StagesOf(list)[i].plugin : i \in 1..Len(list.items)}

\* the list the claim says is in effect for a compileMdx call
InEffect(key, configured) ==
  IF HasKey(run.options, key) THEN Prop(run.options, key) ELSE configured

RanMdx == run.op = "compileMdx"
RanHtml == run.op = "compileMdxToHtml"
RanLlmUi == run.op = "compileForLlmUi"

\* C11: a per-call override replaces the configured list: in a compileMdx call
\* that succeeds, the user stages applied before (after) the core transform are
\* exactly those of the remarkPlugins (rehypePlugins) override when one is given,
\* and in every compileMdx call no stage outside the lists in effect is applied.
C11_OverrideReplaces ==
  RanMdx =>
    /\ (run.result.exit = "Success" /\ HasKey(run.options, "remarkPlugins")) =>
          PreApplied(run.applied) = StagesOf(Prop(run.options, "remarkPlugins"))
    /\ (run.result.exit = "Success" /\ HasKey(run.options, "rehypePlugins")) =>
          PostApplied(run.applied) = StagesOf(Prop(run.options, "rehypePlugins"))
    /\ \A i \in 1..Len(run.applied) :
          IsUserStage(run.applied[i]) =>
            run.applied[i].plugin \in
              PluginsOf(InEffect("remarkPlugins", cfg.remarkPlugins))
                \cup PluginsOf(InEffect("rehypePlugins", cfg.rehypePlugins))

\* configured remarkPlugins [A], override []: the call succeeded
C11_Witness ==
  /\ RanMdx
  /\ cfg.remarkPlugins = Arr(<<PluginA>>)
  /\ Prop(run.options, "remarkPlugins") = Arr(<<>>)
  /\ run.result.exit = "Success"
  /\ run.result.value.of # <<>>

\* the plugins of a sequence of stages
PluginSeq(stages) == [i \in 1..Len(stages) |-> stages[i].plugin]

\* C12: in every compileMdxToHtml call that succeeds the stages applied are
\* remarkParse and remarkGfm, every configured remarkPlugins entry in list order,
\* remarkRehype, every configured rehypePlugins entry in list order,
\* rehypeStringify.
C12_FixedOrder ==
  (RanHtml /\ run.result.exit = "Success") =>
    PluginSeq(run.applied) =
      <<remarkParse, remarkGfm>> \o PluginSeq(StagesOf(cfg.remarkPlugins))
        \o <<remarkRehype>> \o PluginSeq(StagesOf(cfg.rehypePlugins))
        \o <<rehypeStringify>>

\* the call ended at yield* parseMdxFile
ParseFailed == run.result.exit = "Failure" /\ run.stageExc = NoExc

\* the [stage, options] pairs of a list
PairsOf(list) == {i \in 1..Len(list.items) : IsArray(list.items[i])}

\* the stage of entry i of the list was applied once, with the entry's options
AppliedOnceWithOptions(list, i) ==
  /\ Cardinality({j \in 1..Len(run.applied) :
                    run.applied[j].plugin = StagesOf(list)[i].plugin}) = 1
  /\ \A j \in 1..Len(run.applied) :
       run.applied[j].plugin = StagesOf(list)[i].plugin =>
         run.applied[j].parameters = StagesOf(list)[i].parameters

\* C13: a compileMdxToHtml call whose text parses and in which no stage raises
\* succeeds, and every [stage, options] pair of the configured lists has its
\* stage applied exactly once with exactly that options payload.
C13_PairsApplied ==
  (RanHtml /\ ~ParseFailed /\ run.failing = {}) =>
    /\ run.result.exit = "Success"
    /\ \A i \in PairsOf(cfg.remarkPlugins) : AppliedOnceWithOptions(cfg.remarkPlugins, i)
    /\ \A i \in PairsOf(cfg.rehypePlugins) : AppliedOnceWithOptions(cfg.rehypePlugins, i)

\* C14: when a stage, or the building or running of the processor, raises during
\* compileMdxToHtml or compileMdx, the call fails with the tagged
\* InvalidMdxFormatError whose cause is the exception raised, and returns no
\* output.
C14_StageFailureWrapped ==
  ((RanHtml \/ RanMdx) /\ run.stageExc # NoExc) =>
    /\ run.result.exit = "Failure"
    /\ run.result.tag = "InvalidMdxFormatError"
    /\ run.result.cause = run.stageExc
    /\ run.result.value = NoOutput

\* a stage raised after earlier stages had been applied
C14_Witness ==
  /\ RanHtml
  /\ run.stageExc.kind = "StageError"
  /\ Len(run.applied) > 0
  /\ run.result.exit = "Failure"

\* the compileForLlmUi call recorded in r did what parseMdxFile did, result
\* parsed, and nothing else
LlmUiAsParsed(parsed, r) ==
  /\ r.applied = <<>>
  /\ r.stageExc = NoExc
  /\ IF parsed.exit = "Success"
     THEN /\ r.result.exit = "Success"
          /\ r.result.value.rawMarkdown = parsed.body
          /\ r.result.value.frontmatter = sanitizeToMetadata(jsObject(parsed.attributes))
          /\ r.result.value.llmUiMode = TRUE
     ELSE /\ r.result.exit = parsed.exit
          /\ r.result.tag = parsed.tag
          /\ r.result.reason = parsed.reason
          /\ r.result.cause = parsed.cause
          /\ r.result.value = NoOutput

ConstructionEnded == built # NotBuilt

\* C15: when a layer for MdxConfigService whose getConfig returns a
\* configuration is provided, constructing the service succeeds and the
\* configuration the service holds is the provided one.
C15_InjectedPrecedence ==
  (ConstructionEnded /\ layer.kind = "provided" /\ layer.getConfig.kind = "returns") =>
    /\ built.exit = "Success"
    /\ cfg = layer.getConfig.value

\* C16: when no layer is provided, or the provided service's getConfig returns
\* nothing or throws, constructing the service succeeds and the configuration
\* the service holds is the default one.
C16_ConstructionFallsBack ==
  (ConstructionEnded /\ (layer = NoLayer \/ layer.getConfig.kind \in {"nullish", "throws"})) =>
    /\ built.exit = "Success"
    /\ cfg = defaultCfg

\* how many entries of the list are the stage, alone or in a pair
StageCount(list, plugin) ==
  Cardinality({i \in 1..Len(list.items) : StagesOf(list)[i].plugin = plugin})

\* the stage is in the list once if the toggle is not false and the
\* implementation is supplied, and not at all otherwise
AddedIffEnabled(list, toggle, supplied, plugin) ==
  StageCount(list, plugin) = IF toggle # Bool("false") /\ supplied # Undefined THEN 1 ELSE 0

ParameterAt(k) ==
  IF Prop(metadata, "parameters").t = "array"
  THEN IF \E i \in 1..Len(Prop(metadata, "parameters").items) : IndexKeys[i] = k
       THEN Prop(metadata, "parameters").items[CHOOSE i \in 1..3 : IndexKeys[i] = k]
       ELSE Undefined
  ELSE Prop(Prop(metadata, "parameters"), k)

\* a non-null object with a type member that is one of the five kinds
IsTypedEntry(v) ==
  /\ v.t \in {"object", "array"}
  /\ HasKey(v, "type")
  /\ Prop(v, "type") \in {Str(k) : k \in ParameterTypes}

\* the names an entry or a result member can have
EntryNames ==
  {ParamNames[i] : i \in 1..Len(ParamNames)} \cup {IndexKeys[i] : i \in 1..Len(IndexKeys)}
    \cup {"description", "required", "default"}

\* k is a member of the result: an own member, or one reached through the
\* prototype the result was given
ResultHas(result, k) ==
  \/ HasKey(result, k)
  \/ \E i \in 1..Len(result.proto) : HasKey(result.proto[i], k)

\* C18: after extractParameters(metadata) the result does not raise and has a
\* member k exactly when metadata.parameters[k] is a non-null object with a
\* type member whose value is one of string, number, boolean, array, object.
C18_ExactlyTypedEntries ==
  extraction.op = "extractParameters" =>
    /\ ~extraction.thrown
    /\ \A k \in EntryNames :
         /\ HasKey(extraction.value, k) <=> IsTypedEntry(ParameterAt(k))
         /\ ResultHas(extraction.value, k) => IsTypedEntry(ParameterAt(k))

\* C19: validateMdxConfig(attributes) succeeds with provider and model being
\* the input's values when they are strings and undefined otherwise, and
\* parameters being the sanitized parameters when that member is a mapping and
\* undefined when it is anything else.
C19_PureProjection ==
  extraction.op = "validateMdxConfig" =>
    /\ ~extraction.thrown
    /\ extraction.value.keys = <<"provider", "model", "parameters">>
    /\ Prop(extraction.value, "provider") =
         IF Prop(metadata, "provider").t = "string" THEN Prop(metadata, "provider")
         ELSE Undefined
    /\ Prop(extraction.value, "model") =
         IF Prop(metadata, "model").t = "string" THEN Prop(metadata, "model")
         ELSE Undefined
    /\ Prop(extraction.value, "parameters") =
         IF Prop(metadata, "parameters").t = "object"
         THEN sanitizeToMetadata(Prop(metadata, "parameters"))
         ELSE Undefined

\* what parseMdxFile does on the text when nothing was parsed before
FreshParse == parseMdxFile(EmptyCache, doc).result

\* C21: when the header of the text is rejected (by the fence check or by the
\* codec), every compileMdxToHtml and compileMdx call on it fails with the
\* header error and applies no stage.
C21_ParseFirst ==
  ((RanHtml \/ RanMdx) /\ FreshParse.exit # "Success") =>
    /\ run.result = Propagated(FreshParse)
    /\ run.applied = <<>>

\* v is built only from null, booleans, numbers, strings, arrays and objects
RECURSIVE IsJson(_)
IsJson(v) ==
  \/ v.t \in {"null", "boolean", "number", "string"}
  \/ /\ v.t \in {"array", "object"}
     /\ \A i \in 1..Len(v.items) : IsJson(v.items[i])

\* v holds a function, a symbol or an undefined member somewhere
RECURSIVE HoldsNonJson(_)
HoldsNonJson(v) ==
  \/ v.t \in {"function", "symbol", "undefined"}
  \/ \E i \in 1..Len(v.items) : HoldsNonJson(v.items[i])

\* C22: sanitizeToMetadata of every mapping, also of one holding functions,
\* symbols, undefined members or a reference to itself, returns (does not
\* throw), and what it returns is built only from null, booleans, numbers,
\* strings, arrays and objects.
C22_SanitizeTotalAndJson ==
  extraction.op = "sanitizeToMetadata" =>
    /\ ~extraction.thrown
    /\ IsJson(extraction.value)

\* the tags of the errors parseMdxFile fails with on the texts of PipelineDocs
HeaderFailureTags ==
  {parseMdxFile(EmptyCache, d).result.tag :
     d \in {t \in PipelineDocs : parseMdxFile(EmptyCache, t).result.exit = "Failure"}}

\* C23: the error of a compileMdxToHtml or compileMdx call that failed in a
\* stage or in the renderer, after the header was separated, has a tag that no
\* header failure has: the two kinds can be told apart by the tag alone.
C23_TwoErrorKinds ==
  ((RanHtml \/ RanMdx) /\ run.stageExc # NoExc) =>
    /\ run.result.exit = "Failure"
    /\ run.result.tag \notin HeaderFailureTags

\* C24: in every interleaving of the calls, a call that has ended returned what
\* the same call returns when it runs alone.
C24_CallsIndependent ==
  \A i \in 1..Len(calls) :
    calls[i].pc = "done" =>
      calls[i].result = alone(unifiedMajor, cfg, calls[i].op, calls[i].text)

\* C25: a compileMdx call with per-call lists leaves the configuration the
\* service holds as it was, so that a later call without per-call lists works
\* from the lists resolved at construction.
C25_OverrideKeepsConfig ==
  [][(CompileMdx /\ run'.options # Undefined) => cfg' = cfg]_vars

\* the first line after the first that is exactly the marker
MarkerLineAfterFirst(text) ==
  CHOOSE i \in 2..Len(SplitLines(text)) :
    /\ SplitLines(text)[i] = Fence
    /\ \A j \in 2..(i - 1) : SplitLines(text)[j] # Fence

\* the lines strictly between the opening marker and that line
LinesToMarker(text) ==
  JoinLines(SubSeq(SplitLines(text), 2, MarkerLineAfterFirst(text) - 1))

\* C26: for a text whose first line is the marker and that has a later line
\* exactly '---', validateFrontmatterFence fails iff the lines strictly between
\* the opening marker and the first such line hold an odd number of double
\* quotes: quotes after that line are not counted, and a line that begins with
\* '---' and has more characters does not end the region.
C26_RegionEndsAtExactMarker ==
  (Validated /\ FirstLine(doc) = Fence /\ ~NoMarkerLineAfterFirst(doc)) =>
    (call.result.exit # "Success" <=> OddQuotes(LinesToMarker(doc)))

\* C27: when validateFrontmatterFence rejects the text, parseMdxFile fails with
\* the validator's error as it was thrown: the reason is the validator's reason,
\* and the validator's error is not nested as the cause of another error.
C27_ValidatorErrorAsIs ==
  (ParsedDoc /\ validateFrontmatterFence(doc)) =>
    /\ call.result.exit = "Failure"
    /\ call.result.reason = <<UnbalancedQuotes.reason>>
    /\ call.result.cause # UnbalancedQuotes

\* C28: the two lists of a compileMdx call are resolved independently: the list
\* handed to mdxCompile for a kind the call does not override is the configured
\* list of that kind, whether or not the other kind is overridden.
C28_ResolvedIndependently ==
  [][(run'.op = "compileMdx" /\ run'.handed # NotHanded) =>
       /\ ~HasKey(run'.options, "remarkPlugins") =>
             run'.handed[1].remarkPlugins = cfg.remarkPlugins
       /\ ~HasKey(run'.options, "rehypePlugins") =>
             run'.handed[1].rehypePlugins = cfg.rehypePlugins]_vars

\* only remarkPlugins was overridden, by a list that differs from both
\* configured lists, and the configured rehypePlugins, not empty, was handed over
C28_Witness ==
  /\ RanMdx /\ run.result.exit = "Success"
  /\ HasKey(run.options, "remarkPlugins") /\ ~HasKey(run.options, "rehypePlugins")
  /\ run.handed # NotHanded
  /\ run.handed[1].remarkPlugins = Prop(run.options, "remarkPlugins")
  /\ run.handed[1].remarkPlugins \notin {cfg.remarkPlugins, cfg.rehypePlugins}
  /\ run.handed[1].rehypePlugins = cfg.rehypePlugins
  /\ cfg.rehypePlugins.items # <<>>

\* the stages compileMdxToHtml attaches itself
HtmlBuiltIn == {remarkParse, remarkGfm, remarkRehype, rehypeStringify}

\* how many times the plugin was applied in the call
TimesApplied(plugin) ==
  Cardinality({j \in 1..Len(run.applied) : run.applied[j].plugin = plugin})

\* the stages a compileMdxToHtml call is to apply
HtmlStages ==
  HtmlBuiltIn \cup PluginsOf(cfg.remarkPlugins) \cup PluginsOf(cfg.rehypePlugins)

OneIf(toggle, supplied, plugin) ==
  IF toggle # Bool("false") /\ supplied # Undefined THEN <<plugin>> ELSE <<>>

\* the entries of an extra list, none when the list is not given
EntriesOf(extra) == IF extra = Undefined THEN <<>> ELSE extra.items

\* the list ends with the entries of the extra list, as given, and the stages
\* before them are exactly the preset stages
PresetThenExtras(list, preset, extra) ==
  /\ Len(list.items) = Len(preset) + Len(EntriesOf(extra))
  /\ SubSeq(list.items, Len(preset) + 1, Len(list.items)) = EntriesOf(extra)
  /\ PluginSeq(StagesOf(Arr(SubSeq(list.items, 1, Len(preset))))) = preset

\* C30: in the configuration docsPresetLayer builds, remarkPlugins is the slug
\* stage, then the autolink stage (each if enabled and supplied), then the
\* extraRemark entries in the order given, and rehypePlugins is the sanitize
\* stage (if enabled and supplied), then the extraRehype entries in the order
\* given.
C30_PresetBeforeExtras ==
  layer.from = "docsPresetLayer" =>
    /\ PresetThenExtras(layer.getConfig.value.remarkPlugins,
                        OneIf(opts.slug, opts.remarkSlug, remarkSlug)
                          \o OneIf(opts.autolink, opts.remarkAutolinkHeadings,
                                   remarkAutolinkHeadings),
                        opts.extraRemark)
    /\ PresetThenExtras(layer.getConfig.value.rehypePlugins,
                        OneIf(opts.sanitize, opts.rehypeSanitize, rehypeSanitize),
                        opts.extraRehype)

\* all three preset stages enabled and supplied, two extra stages of each kind
C30_Witness ==
  /\ layer.from = "docsPresetLayer"
  /\ Len(layer.getConfig.value.remarkPlugins.items) = 4
  /\ Len(layer.getConfig.value.rehypePlugins.items) = 3
  /\ opts.extraRemark = Arr(<<PluginA, PluginB>>)
  /\ opts.extraRehype = Arr(<<PluginB, PluginA>>)

====
